---- MODULE Spec2Model ----
(***************************************************************************)
(* Model of scripts/zabbix_whatsapp_sender.py: the WhatsApp messaging      *)
(* client, the Zabbix graph fetcher with its two authentication modes,     *)
(* the media encoder and main().                                           *)
(*                                                                         *)
(* Three entry points share the state: main(argv) (pc starts at "main"),   *)
(* direct use of a ZabbixGraphFetcher instance by a caller that invokes    *)
(* prepare() and fetch_graph() in any order (pc = "driver"), and a direct  *)
(* call of encode_media (pc = "encode").                                   *)
(* Every HTTP response is an input chosen by the environment.              *)
(***************************************************************************)
EXTENDS Integers, Sequences, FiniteSets, TLC

VARIABLES
    pc,           \* position of main, or "driver" for direct use of the fetcher
    args,         \* the parsed command line (argparse namespace)
    fetcher,      \* the ZabbixGraphFetcher instance's fields
    net,          \* every HTTP request issued so far, in order, with its outcome
    calls,        \* the prepare()/fetch_graph() calls made on the fetcher so far
    graph,        \* (data, mimetype) returned by fetch_graph in main
    media,        \* the media object returned by encode_media
    exit_status   \* {} while running, {n} once the process has exited with n

vars == <<pc, args, fetcher, net, calls, graph, media, exit_status>>

----------------------------------------------------------------------------
(* Bounds *)

\* number of prepare()/fetch_graph() calls a direct caller makes
MaxCalls == 3

\* longest byte sequence given to encode_media directly
MaxLen == 3

----------------------------------------------------------------------------
(* Python values *)

\* Python's None, for an Optional[str]
None == "<None>"

\* a key that is not present in a dict
Absent == "<absent>"

\* truth value of an Optional[str]: None and "" are false
Truthy(s) == s # None /\ s # ""

\* Python's `a or b` on Optional[str]
PyOr(a, b) == IF Truthy(a) THEN a ELSE b

\* first status code treated as a failure
HTTP_ERROR == 400

\* index of the padding character '=' after the 64 alphabet characters
B64Pad == 64

----------------------------------------------------------------------------
(* HTTP responses chosen by the environment *)

\* a response to session.post of WhatsAppAPIClient._post: a network failure
\* (requests raises), or a status code and a body that is JSON or not
PostResponses ==
    {[neterr |-> TRUE, status |-> 0, json |-> FALSE]} \cup
    {[neterr |-> FALSE, status |-> s, json |-> j] : s \in {200, 404, 500}, j \in BOOLEAN}

\* a response to the user.login call: a network failure, or a status code and
\* a body that is not JSON, a JSON object with an "error" key, a JSON object
\* with neither "error" nor "result", or a JSON object with a "result"
LoginResponses ==
    {[neterr |-> TRUE, status |-> 0, body |-> "none", result |-> None]} \cup
    {[neterr |-> FALSE, status |-> s, body |-> b, result |-> None] :
        s \in {200, 500}, b \in {"nonjson", "error", "empty"}} \cup
    {[neterr |-> FALSE, status |-> s, body |-> "result", result |-> t] :
        s \in {200, 500}, t \in {"", "sess"}}

\* a response to the chart2.php GET: a network failure, or a status code, the
\* body bytes and the Content-Type header (None when the server omits it)
ChartResponses ==
    {[neterr |-> TRUE, status |-> 0, content |-> <<>>, ctype |-> None]} \cup
    {[neterr |-> FALSE, status |-> 404, content |-> <<>>, ctype |-> None]} \cup
    {[neterr |-> FALSE, status |-> 200, content |-> c, ctype |-> t] :
        c \in {<<>>, <<137, 80>>}, t \in {None, "image/jpeg"}}

\* one entry of the request log
Request(kind, resp, err, f, auth, payload, result) ==
    [req |-> kind, neterr |-> resp.neterr, status |-> resp.status, err |-> err,
     mode |-> f.auth_type, authz |-> f.authz, auth |-> auth, payload |-> payload,
     result |-> result]

----------------------------------------------------------------------------
(* WhatsAppAPIClient *)

\* a client has no Authorization header; only its request log shape is shared
ClientSession == [auth_type |-> None, authz |-> None]

_post(endpoint, payload, resp) ==
    LET err == IF resp.neterr THEN "transport"
               ELSE IF resp.status >= HTTP_ERROR THEN "http"
               ELSE IF ~resp.json THEN "decode"
               ELSE "ok"
    IN [req |-> Request(endpoint, resp, err, ClientSession, Absent, payload, None),
        err |-> err]

send_text(phone, message, subject, resp) ==
    _post("/send",
          [phone |-> phone, message |-> message,
           subject |-> IF Truthy(subject) THEN subject ELSE Absent],
          resp)

\* send_media that puts the caption in the payload even when it is empty
send_media_AlwaysCaption(phone, m, caption, resp) ==
    _post("/send-media", [phone |-> phone, media |-> m, caption |-> caption], resp)

send_media(phone, m, caption, resp) ==
    _post("/send-media",
          [phone |-> phone, media |-> m,
           caption |-> IF Truthy(caption) THEN caption ELSE Absent],
          resp)

----------------------------------------------------------------------------
(* ZabbixGraphFetcher *)

\* the instance before main has constructed it
NoFetcher ==
    [built |-> FALSE, token |-> None, user |-> None, password |-> None,
     auth_type |-> None, authz |-> None]

\* __init__: auth_type is None and the session has no Authorization header
ZabbixGraphFetcher(token, user, password) ==
    [built |-> TRUE, token |-> token, user |-> user, password |-> password,
     auth_type |-> None, authz |-> None]

\* _api_login that does not test for the "error" key and returns data.get("result")
_api_login_IgnoresError(f, resp) ==
    LET err == IF resp.neterr THEN "transport"
               ELSE IF resp.body = "nonjson" THEN "decode"
               ELSE "ok"
    IN [req |-> Request("login", resp, IF resp.body = "error" THEN "auth" ELSE err,
                        f, Absent,
                        [user |-> f.user, password |-> f.password],
                        resp.result),
        err |-> err,
        result |-> resp.result]

\* the status code of the login response is not looked at
_api_login(f, resp) ==
    LET err == IF resp.neterr THEN "transport"
               ELSE IF resp.body = "nonjson" THEN "decode"
               ELSE IF resp.body = "error" THEN "auth"
               ELSE IF resp.body = "empty" THEN "keyerror"
               ELSE "ok"
    IN [req |-> Request("login", resp, err, f, Absent,
                        [user |-> f.user, password |-> f.password],
                        resp.result),
        err |-> err,
        result |-> resp.result]

\* prepare with the username/password branch tested before the token
prepare_UserFirst(f, lresp) ==
    IF Truthy(f.user) /\ Truthy(f.password)
    THEN LET l == _api_login(f, lresp)
         IN IF l.err # "ok"
            THEN [f |-> f, reqs |-> <<l.req>>, err |-> l.err]
            ELSE [f |-> [f EXCEPT !.auth_type = "legacy", !.token = l.result],
                  reqs |-> <<l.req>>, err |-> "ok"]
    ELSE IF Truthy(f.token)
    THEN [f |-> [f EXCEPT !.auth_type = "bearer", !.authz = f.token],
          reqs |-> <<>>, err |-> "ok"]
    ELSE [f |-> f, reqs |-> <<>>, err |-> "config"]

\* prepare that logs in when either the username or the password is given
prepare_UserOrPassword(f, lresp) ==
    IF Truthy(f.token)
    THEN [f |-> [f EXCEPT !.auth_type = "bearer", !.authz = f.token],
          reqs |-> <<>>, err |-> "ok"]
    ELSE IF Truthy(f.user) \/ Truthy(f.password)
    THEN LET l == _api_login(f, lresp)
         IN IF l.err # "ok"
            THEN [f |-> f, reqs |-> <<l.req>>, err |-> l.err]
            ELSE [f |-> [f EXCEPT !.auth_type = "legacy", !.token = l.result],
                  reqs |-> <<l.req>>, err |-> "ok"]
    ELSE [f |-> f, reqs |-> <<>>, err |-> "config"]

prepare(f, lresp) ==
    IF Truthy(f.token)
    THEN [f |-> [f EXCEPT !.auth_type = "bearer", !.authz = f.token],
          reqs |-> <<>>, err |-> "ok"]
    ELSE IF Truthy(f.user) /\ Truthy(f.password)
    THEN LET l == _api_login(f, lresp)
         IN IF l.err # "ok"
            THEN [f |-> f, reqs |-> <<l.req>>, err |-> l.err]
            ELSE [f |-> [f EXCEPT !.auth_type = "legacy", !.token = l.result],
                  reqs |-> <<l.req>>, err |-> "ok"]
    ELSE [f |-> f, reqs |-> <<>>, err |-> "config"]

\* fetch_graph that calls prepare() on every call
fetch_graph_AlwaysPrepare(f, graph_id, lresp, cresp) ==
    LET p == prepare(f, lresp)
        g == p.f
        auth == IF g.auth_type = "legacy" /\ Truthy(g.token) THEN g.token ELSE Absent
        cerr == IF cresp.neterr THEN "transport"
                ELSE IF cresp.status >= HTTP_ERROR THEN "http"
                ELSE "ok"
        get == Request("chart", cresp, cerr, g, auth, [graphid |-> graph_id], None)
    IN IF p.err # "ok"
       THEN [f |-> g, reqs |-> p.reqs, err |-> p.err,
             data |-> <<>>, mimetype |-> None]
       ELSE [f |-> g, reqs |-> p.reqs \o <<get>>, err |-> cerr,
             data |-> cresp.content,
             mimetype |-> IF cresp.ctype = None THEN "image/png" ELSE cresp.ctype]

fetch_graph(f, graph_id, lresp, cresp) ==
    LET p == IF f.auth_type = None
             THEN prepare(f, lresp)
             ELSE [f |-> f, reqs |-> <<>>, err |-> "ok"]
        g == p.f
        auth == IF g.auth_type = "legacy" /\ Truthy(g.token) THEN g.token ELSE Absent
        cerr == IF cresp.neterr THEN "transport"
                ELSE IF cresp.status >= HTTP_ERROR THEN "http"
                ELSE "ok"
        get == Request("chart", cresp, cerr, g, auth, [graphid |-> graph_id], None)
    IN IF p.err # "ok"
       THEN [f |-> g, reqs |-> p.reqs, err |-> p.err,
             data |-> <<>>, mimetype |-> None]
       ELSE [f |-> g, reqs |-> p.reqs \o <<get>>, err |-> cerr,
             data |-> cresp.content,
             mimetype |-> IF cresp.ctype = None THEN "image/png" ELSE cresp.ctype]

----------------------------------------------------------------------------
(* encode_media *)

\* b64encode that fills an incomplete last group with zero bytes instead of
\* padding
RECURSIVE b64encode_ZeroFill(_)
b64encode_ZeroFill(d) ==
    IF Len(d) = 0 THEN <<>>
    ELSE IF Len(d) = 1
    THEN <<d[1] \div 4, (d[1] % 4) * 16, 0, 0>>
    ELSE IF Len(d) = 2
    THEN <<d[1] \div 4, (d[1] % 4) * 16 + (d[2] \div 16), (d[2] % 16) * 4, 0>>
    ELSE <<d[1] \div 4, (d[1] % 4) * 16 + (d[2] \div 16),
           (d[2] % 16) * 4 + (d[3] \div 64), d[3] % 64>>
         \o b64encode_ZeroFill(SubSeq(d, 4, Len(d)))

\* base64.b64encode: the text is a sequence of alphabet indices 0..63, with
\* B64Pad for '='
RECURSIVE b64encode(_)
b64encode(d) ==
    IF Len(d) = 0 THEN <<>>
    ELSE IF Len(d) = 1
    THEN <<d[1] \div 4, (d[1] % 4) * 16, B64Pad, B64Pad>>
    ELSE IF Len(d) = 2
    THEN <<d[1] \div 4, (d[1] % 4) * 16 + (d[2] \div 16), (d[2] % 16) * 4, B64Pad>>
    ELSE <<d[1] \div 4, (d[1] % 4) * 16 + (d[2] \div 16),
           (d[2] % 16) * 4 + (d[3] \div 64), d[3] % 64>>
         \o b64encode(SubSeq(d, 4, Len(d)))

encode_media(data, mimetype, filename) ==
    [data |-> b64encode(data), mimetype |-> mimetype, filename |-> filename]

----------------------------------------------------------------------------
(* The command line *)

OptStr(s) == {None, "", s}

\* parser.parse_args: phone and message are required, the rest is optional
MainArgs ==
    [phone : {"+5511999999999"},
     message : {"", "CPU high"},
     subject : {None, "Alert"},
     caption : OptStr("Graph"),
     graph_id : OptStr("42"),
     zabbix_url : OptStr("https://zbx.example"),
     zabbix_token : OptStr("abc"),
     zabbix_user : OptStr("Admin"),
     zabbix_password : OptStr("zabbix"),
     graph_filename : {"zabbix-graph.png"}]

\* the constructor arguments and graph id a direct caller uses
DriverArgs ==
    {a \in MainArgs : /\ a.message = "CPU high" /\ a.subject = None
                      /\ a.caption = None /\ a.graph_id = "42"
                      /\ a.zabbix_url = "https://zbx.example"}

NoGraph == [data |-> <<>>, mimetype |-> None]

\* no media object has been built yet
NoMedia == [data |-> <<>>, mimetype |-> None, filename |-> None]

\* the byte values and byte sequences given to encode_media directly
ByteValues == {0, 1, 77, 128, 255}

ByteSeqs == UNION {[1..n -> ByteValues] : n \in 0..MaxLen}

\* the arguments of a direct encode_media call: data, mimetype and filename
EncodeArgs ==
    {a \in [phone : {"+5511999999999"}, message : {"CPU high"}, subject : {None},
            caption : {None}, graph_id : {None}, zabbix_url : {None},
            zabbix_token : {None}, zabbix_user : {None}, zabbix_password : {None},
            graph_filename : {"zabbix-graph.png", "cpu.jpg"}] : TRUE}

----------------------------------------------------------------------------
(* main *)

MainInit ==
    /\ pc = "main"
    /\ args \in MainArgs
    /\ fetcher = NoFetcher
    /\ net = <<>>
    /\ calls = <<>>
    /\ graph = NoGraph
    /\ media = NoMedia
    /\ exit_status = {}

\* main that goes on to the graph stage without sending the text
MainSendText_NoSend ==
    /\ pc = "main"
    /\ pc' = "graph"
    /\ UNCHANGED <<args, fetcher, net, calls, graph, media, exit_status>>

\* main that logs a failed text send and goes on to the graph stage
MainSendText_IgnoresFailure ==
    /\ pc = "main"
    /\ \E resp \in PostResponses :
        LET r == send_text(args.phone, args.message, args.subject, resp)
        IN /\ net' = Append(net, r.req)
           /\ pc' = "graph"
           /\ UNCHANGED exit_status
    /\ UNCHANGED <<args, fetcher, calls, graph, media>>

\* lines 186-193: the text send; a failure returns 2
MainSendText ==
    /\ pc = "main"
    /\ \E resp \in PostResponses :
        LET r == send_text(args.phone, args.message, args.subject, resp)
        IN /\ net' = Append(net, r.req)
           /\ IF r.err # "ok"
              THEN pc' = "exit" /\ exit_status' = {2}
              ELSE pc' = "graph" /\ UNCHANGED exit_status
    /\ UNCHANGED <<args, fetcher, calls, graph, media>>

\* main that enters the graph stage whenever a Zabbix URL is given
MainCheckGraph_NoGraphIdTest ==
    /\ pc = "graph"
    /\ IF ~Truthy(args.zabbix_url)
       THEN pc' = "exit" /\ exit_status' = {0} /\ UNCHANGED fetcher
       ELSE /\ pc' = "fetch"
            /\ fetcher' = ZabbixGraphFetcher(args.zabbix_token, args.zabbix_user,
                                             args.zabbix_password)
            /\ UNCHANGED exit_status
    /\ UNCHANGED <<args, net, calls, graph, media>>

\* lines 195-205 and 222: without a graph id return 0; without a Zabbix URL
\* parser.error exits with status 2; otherwise construct the fetcher
MainCheckGraph ==
    /\ pc = "graph"
    /\ IF ~Truthy(args.graph_id)
       THEN pc' = "exit" /\ exit_status' = {0} /\ UNCHANGED fetcher
       ELSE IF ~Truthy(args.zabbix_url)
       THEN pc' = "exit" /\ exit_status' = {2} /\ UNCHANGED fetcher
       ELSE /\ pc' = "fetch"
            /\ fetcher' = ZabbixGraphFetcher(args.zabbix_token, args.zabbix_user,
                                             args.zabbix_password)
            /\ UNCHANGED exit_status
    /\ UNCHANGED <<args, net, calls, graph, media>>

\* main that starts over once, text send included, when the chart fetch fails
MainFetchGraph_RestartOnFailure ==
    /\ pc = "fetch"
    /\ \E lresp \in LoginResponses, cresp \in ChartResponses :
        LET r == fetch_graph(fetcher, args.graph_id, lresp, cresp)
            again == Cardinality({i \in 1..Len(net) : net[i].req = "/send"}) < 2
        IN /\ fetcher' = IF r.err # "ok" /\ again THEN NoFetcher ELSE r.f
           /\ net' = net \o r.reqs
           /\ calls' = Append(calls, [op |-> "fetch_graph", err |-> r.err])
           /\ IF r.err # "ok"
              THEN IF again
                   THEN pc' = "main" /\ UNCHANGED <<graph, exit_status>>
                   ELSE pc' = "exit" /\ exit_status' = {3} /\ UNCHANGED graph
              ELSE /\ pc' = "media"
                   /\ graph' = [data |-> r.data, mimetype |-> r.mimetype]
                   /\ UNCHANGED exit_status
    /\ UNCHANGED <<args, media>>

\* lines 206-213, 218-220: fetch the chart; any exception returns 3
MainFetchGraph ==
    /\ pc = "fetch"
    /\ \E lresp \in LoginResponses, cresp \in ChartResponses :
        LET r == fetch_graph(fetcher, args.graph_id, lresp, cresp)
        IN /\ fetcher' = r.f
           /\ net' = net \o r.reqs
           /\ calls' = Append(calls, [op |-> "fetch_graph", err |-> r.err])
           /\ IF r.err # "ok"
              THEN pc' = "exit" /\ exit_status' = {3} /\ UNCHANGED graph
              ELSE /\ pc' = "media"
                   /\ graph' = [data |-> r.data, mimetype |-> r.mimetype]
                   /\ UNCHANGED exit_status
    /\ UNCHANGED <<args, media>>

\* main that sends the media a second time when the first attempt fails
MainSendMedia_RetryOnce ==
    /\ pc = "media"
    /\ \E resp \in PostResponses :
        LET m == encode_media(graph.data, graph.mimetype, args.graph_filename)
            caption == PyOr(args.caption, args.message)
            r == send_media(args.phone, m, caption, resp)
            first == \A i \in 1..Len(net) : net[i].req # "/send-media"
        IN /\ media' = m
           /\ net' = Append(net, r.req)
           /\ IF r.err # "ok" /\ first
              THEN pc' = "media" /\ UNCHANGED exit_status
              ELSE /\ pc' = "exit"
                   /\ exit_status' = IF r.err # "ok" THEN {3} ELSE {0}
    /\ UNCHANGED <<args, fetcher, calls, graph>>

\* lines 214-222: encode, send the media; any exception returns 3, else 0
MainSendMedia ==
    /\ pc = "media"
    /\ \E resp \in PostResponses :
        LET m == encode_media(graph.data, graph.mimetype, args.graph_filename)
            caption == PyOr(args.caption, args.message)
            r == send_media(args.phone, m, caption, resp)
        IN /\ media' = m
           /\ net' = Append(net, r.req)
           /\ pc' = "exit"
           /\ exit_status' = IF r.err # "ok" THEN {3} ELSE {0}
    /\ UNCHANGED <<args, fetcher, calls, graph>>

----------------------------------------------------------------------------
(* Direct use of a fetcher instance *)

DriverInit ==
    /\ pc = "driver"
    /\ args \in DriverArgs
    /\ fetcher = ZabbixGraphFetcher(args.zabbix_token, args.zabbix_user,
                                    args.zabbix_password)
    /\ net = <<>>
    /\ calls = <<>>
    /\ graph = NoGraph
    /\ media = NoMedia
    /\ exit_status = {}

\* an explicit prepare() call
CallPrepare ==
    /\ pc = "driver"
    /\ Len(calls) < MaxCalls
    /\ \E lresp \in LoginResponses :
        LET r == prepare(fetcher, lresp)
        IN /\ fetcher' = r.f
           /\ net' = net \o r.reqs
           /\ calls' = Append(calls, [op |-> "prepare", err |-> r.err])
    /\ UNCHANGED <<pc, args, graph, media, exit_status>>

\* a fetch_graph() call
CallFetchGraph ==
    /\ pc = "driver"
    /\ Len(calls) < MaxCalls
    /\ \E lresp \in LoginResponses, cresp \in ChartResponses :
        LET r == fetch_graph(fetcher, args.graph_id, lresp, cresp)
        IN /\ fetcher' = r.f
           /\ net' = net \o r.reqs
           /\ calls' = Append(calls, [op |-> "fetch_graph", err |-> r.err])
           /\ graph' = IF r.err = "ok"
                       THEN [data |-> r.data, mimetype |-> r.mimetype]
                       ELSE graph
    /\ UNCHANGED <<pc, args, media, exit_status>>

----------------------------------------------------------------------------
(* Direct use of encode_media *)

EncodeInit ==
    /\ pc = "encode"
    /\ args \in EncodeArgs
    /\ fetcher = NoFetcher
    /\ net = <<>>
    /\ calls = <<>>
    /\ graph \in [data : ByteSeqs, mimetype : {"image/png", "image/jpeg"}]
    /\ media = NoMedia
    /\ exit_status = {}

\* an encode_media(data, mimetype, filename) call
CallEncodeMedia ==
    /\ pc = "encode"
    /\ media' = encode_media(graph.data, graph.mimetype, args.graph_filename)
    /\ pc' = "encoded"
    /\ UNCHANGED <<args, fetcher, net, calls, graph, exit_status>>

----------------------------------------------------------------------------

Init == MainInit \/ DriverInit \/ EncodeInit

Next ==
    \/ MainSendText
    \/ MainCheckGraph
    \/ MainFetchGraph
    \/ MainSendMedia
    \/ CallPrepare
    \/ CallFetchGraph
    \/ CallEncodeMedia

Spec == Init /\ [][Next]_vars

\* the steps of main alone
MainNext ==
    \/ MainSendText
    \/ MainCheckGraph
    \/ MainFetchGraph
    \/ MainSendMedia

\* a run of main in which every HTTP call returns a response or an error:
\* the single thread always takes its next step
LiveSpec == MainInit /\ [][MainNext]_vars /\ WF_vars(MainNext)

----------------------------------------------------------------------------
(* Observations on the request log *)

InMain == pc \in {"main", "graph", "fetch", "media", "exit"}

\* positions of the requests of one kind in the log
Idx(kind) == {i \in 1..Len(net) : net[i].req = kind}

\* the requests of the graph stage
GraphReqs == {"login", "chart", "/send-media"}

\* the text send of this run has been issued and succeeded
TextOk == Idx("/send") # {} /\ \A i \in Idx("/send") : net[i].err = "ok"

\* the fetcher is given a username and a password and no token
UserPassOnly ==
    ~Truthy(args.zabbix_token) /\ Truthy(args.zabbix_user) /\ Truthy(args.zabbix_password)

\* the fetcher is given neither a token nor a complete username/password pair
NoCredentials ==
    ~Truthy(args.zabbix_token) /\ ~(Truthy(args.zabbix_user) /\ Truthy(args.zabbix_password))

\* only fetch_graph() has been called on the fetcher
FetchOnly == \A k \in 1..Len(calls) : calls[k].op = "fetch_graph"

\* position of the first chart GET (only used when there is one)
FirstChart == CHOOSE i \in Idx("chart") : \A j \in Idx("chart") : i <= j

----------------------------------------------------------------------------
(* Claims *)

\* C1: when --graph-id is supplied and --zabbix-url is absent, main issues no
\* network request at all: the run's request log stays empty.
C1_NoRequestWithoutZabbixUrl ==
    (InMain /\ Truthy(args.graph_id) /\ ~Truthy(args.zabbix_url)) => net = <<>>

\* C2: in main, every monitoring request and every POST /send-media is
\* preceded in the request log by the POST /send of the same run.
C2_MediaOnlyAfterText ==
    InMain =>
        \A i \in 1..Len(net) :
            net[i].req \in GraphReqs => \E j \in 1..(i - 1) : net[j].req = "/send"

C2_Witness ==
    /\ InMain
    /\ Idx("login") # {} /\ Idx("chart") # {} /\ Idx("/send-media") # {}

\* C3: when the text send fails (status >= 400, network failure), main exits
\* with status 2 and the failed POST /send is the only request of the run,
\* whatever graph options were given.
C3_TextFailureIsTerminal ==
    (InMain /\ Len(net) >= 1 /\ net[1].err # "ok") =>
        /\ net[1].req = "/send"
        /\ Len(net) = 1
        /\ pc = "exit"
        /\ exit_status = {2}

C3_Witness ==
    /\ InMain
    /\ Len(net) = 1 /\ net[1].status = 404
    /\ Truthy(args.graph_id) /\ Truthy(args.zabbix_url)
    /\ Truthy(args.zabbix_token) /\ Truthy(args.zabbix_user)
    /\ Truthy(args.zabbix_password)
    /\ exit_status = {2}

\* C4: a fetcher constructed with a non-empty token never issues a login
\* call, with or without a username and password, and is never in legacy mode.
C4_TokenNeverLogsIn ==
    Truthy(args.zabbix_token) =>
        /\ Idx("login") = {}
        /\ fetcher.auth_type \in {None, "bearer"}

C4_Witness ==
    /\ pc = "driver"
    /\ Truthy(args.zabbix_token) /\ Truthy(args.zabbix_user)
    /\ Truthy(args.zabbix_password)
    /\ \E k \in 1..Len(calls) : calls[k].op = "prepare"
    /\ \E k \in 1..Len(calls) : calls[k].op = "fetch_graph"
    /\ Idx("chart") # {}

\* C5 (as claimed): with a username and password and no token, and only
\* fetch_graph() called, exactly one login call precedes the first chart GET,
\* no login call follows it, and the token of that login is the stored one.
C5_ExactlyOneLogin ==
    (UserPassOnly /\ FetchOnly /\ Idx("chart") # {}) =>
        /\ Cardinality({i \in Idx("login") : i < FirstChart}) = 1
        /\ \A i \in Idx("login") : i < FirstChart /\ fetcher.token = net[i].result

\* C5 (amended): with a username and password and no token, and only
\* fetch_graph() called, exactly one login call that succeeded precedes the
\* first chart GET (earlier fetch_graph() calls whose login failed issued one
\* failed login each and no chart GET), no login call follows the first chart
\* GET, the stored token is the result of the successful login, and every
\* chart GET carries the same credential.
C5_ExactlyOneSuccessfulLogin ==
    (UserPassOnly /\ FetchOnly /\ Idx("chart") # {}) =>
        /\ Cardinality({i \in Idx("login") : i < FirstChart /\ net[i].err = "ok"}) = 1
        /\ \A i \in Idx("login") :
            /\ i < FirstChart
            /\ net[i].err = "ok" => fetcher.token = net[i].result
        /\ \A i \in Idx("chart") :
            /\ net[i].auth = net[FirstChart].auth
            /\ net[i].authz = net[FirstChart].authz
        /\ Cardinality(Idx("login")) <= Len(calls)

C5_Witness ==
    /\ pc = "driver"
    /\ UserPassOnly /\ FetchOnly
    /\ Cardinality(Idx("login")) = 2
    /\ Cardinality(Idx("chart")) = 2
    /\ net[FirstChart].auth = "sess"

\* C6: once the fetcher is authenticated (bearer or legacy), no later step
\* changes its authentication mode or its stored token.
C6_ModeIsTerminal ==
    [][fetcher.auth_type # None =>
        (fetcher'.auth_type = fetcher.auth_type /\ fetcher'.token = fetcher.token)]_vars

\* C7: every chart GET is sent in bearer mode with an Authorization header
\* and no auth parameter, or in legacy mode with the session token of an
\* earlier login as the auth parameter and no Authorization header.
C7_ChartCarriesCredential ==
    \A i \in Idx("chart") :
        \/ /\ net[i].mode = "bearer"
           /\ Truthy(net[i].authz)
           /\ net[i].auth = Absent
        \/ /\ net[i].mode = "legacy"
           /\ net[i].authz = None
           /\ \E j \in Idx("login") :
                j < i /\ net[j].err = "ok" /\ net[i].auth = net[j].result

\* C8: a run of main without --graph-id issues no login, chart GET or
\* POST /send-media, never more than one POST /send, and exactly one POST
\* /send by the time it exits, whatever the outcome of the text send.
C8_TextOnlyRun ==
    (InMain /\ args.graph_id = None) =>
        /\ \A i \in 1..Len(net) : net[i].req \notin GraphReqs
        /\ Cardinality(Idx("/send")) <= 1
        /\ pc = "exit" => Cardinality(Idx("/send")) = 1

C8_Witness ==
    /\ InMain /\ args.graph_id = None
    /\ Truthy(args.zabbix_url) /\ Truthy(args.zabbix_token)
    /\ pc = "exit" /\ exit_status = {0}
    /\ Len(net) = 1

\* C9: at exit the status is 0 only if the text send succeeded and, with a
\* graph id, the chart GET and the media send succeeded; it is 2 when the
\* text send failed; and it is 3 whenever the text send succeeded and the
\* graph stage that a graph id asked for did not end in a successful media
\* send.
C9_ExitStatusByStage ==
    pc = "exit" =>
        /\ exit_status = {0} =>
            /\ TextOk
            /\ Truthy(args.graph_id) =>
                /\ \E i \in Idx("chart") : net[i].err = "ok"
                /\ \E i \in Idx("/send-media") : net[i].err = "ok"
        /\ ~TextOk => exit_status = {2}
        /\ ( /\ TextOk
             /\ Truthy(args.graph_id)
             /\ ~\E i \in Idx("/send-media") : net[i].err = "ok" )
           => exit_status = {3}

\* C10: a fetcher with neither a token nor a complete username/password pair
\* fails every prepare() and fetch_graph() with the configuration error,
\* issues no login and no chart GET, stays unauthenticated, and in main no
\* POST /send-media follows and the run exits with status 3.
C10_NoCredentialsNoRequest ==
    NoCredentials =>
        /\ Idx("login") = {} /\ Idx("chart") = {} /\ Idx("/send-media") = {}
        /\ fetcher.auth_type = None
        /\ \A k \in 1..Len(calls) : calls[k].err = "config"
        /\ (InMain /\ calls # <<>>) => (pc = "exit" /\ exit_status = {3})

C10_Witness ==
    /\ InMain /\ NoCredentials
    /\ Truthy(args.zabbix_user) /\ ~Truthy(args.zabbix_password)
    /\ calls = <<[op |-> "fetch_graph", err |-> "config"]>>
    /\ exit_status = {3}

\* C11: a login call issued by an unauthenticated fetcher and answered with
\* an error field makes the call fail with the authentication error and
\* leaves the fetcher unauthenticated with no token stored; the request that
\* follows it, if any, is never a chart GET or a POST /send-media, and main
\* exits with status 3 without a media send.
C11_LoginErrorKeepsUnauthenticated ==
    \A i \in Idx("login") :
        (net[i].err = "auth" /\ net[i].mode = None) =>
            /\ i < Len(net) => net[i + 1].req = "login"
            /\ i = Len(net) =>
                /\ fetcher.auth_type = None
                /\ fetcher.token = args.zabbix_token /\ ~Truthy(fetcher.token)
                /\ fetcher.authz = None
                /\ calls[Len(calls)].err = "auth"
            /\ InMain =>
                /\ i = Len(net)
                /\ Idx("chart") = {} /\ Idx("/send-media") = {}
                /\ pc = "exit" /\ exit_status = {3}

C11_Witness ==
    /\ InMain
    /\ Len(net) = 2 /\ net[2].req = "login" /\ net[2].err = "auth"
    /\ net[2].status = 200
    /\ exit_status = {3}

C13_CaptionGivenOrMessage ==
    InMain =>
        \A i \in Idx("/send-media") :
            LET c == IF args.caption # None THEN args.caption ELSE args.message
            IN net[i].payload.caption = IF c # "" THEN c ELSE Absent

\* C13 (amended): the caption of the POST /send-media of main is the
\* --caption argument when one was given and is non-empty, else the message
\* text, and the payload has a caption field only if that caption is non-empty.
C13_CaptionNonEmptyOrMessage ==
    InMain =>
        \A i \in Idx("/send-media") :
            LET c == IF args.caption # None /\ args.caption # ""
                     THEN args.caption ELSE args.message
            IN net[i].payload.caption = IF c # "" THEN c ELSE Absent

C13_Witness ==
    /\ InMain
    /\ args.caption = "" /\ args.message = "CPU high"
    /\ \E i \in Idx("/send-media") : net[i].payload.caption = "CPU high"

\* base64 decoding of a text of alphabet indices: every group of four
\* characters gives three bytes, or two or one when it ends in padding
RECURSIVE b64decode(_)
b64decode(t) ==
    IF Len(t) < 4 THEN <<>>
    ELSE (IF t[3] = B64Pad
          THEN <<t[1] * 4 + (t[2] \div 16)>>
          ELSE IF t[4] = B64Pad
          THEN <<t[1] * 4 + (t[2] \div 16), (t[2] % 16) * 16 + (t[3] \div 4)>>
          ELSE <<t[1] * 4 + (t[2] \div 16), (t[2] % 16) * 16 + (t[3] \div 4),
                 (t[3] % 4) * 64 + t[4]>>)
         \o b64decode(SubSeq(t, 5, Len(t)))

\* C14: the data field of encode_media(bytes, mimetype, filename) is a base64
\* text of 4 * ceil(len / 3) characters that decodes to the original bytes,
\* and the mimetype and filename fields are the arguments unchanged; this
\* holds for a direct call and for the media object main sends.
C14_EncodeRoundTrip ==
    (pc = "encoded" \/ (InMain /\ Idx("/send-media") # {})) =>
        /\ b64decode(media.data) = graph.data
        /\ Len(media.data) = 4 * ((Len(graph.data) + 2) \div 3)
        /\ \A k \in 1..Len(media.data) : media.data[k] \in 0..B64Pad
        /\ media.mimetype = graph.mimetype
        /\ media.filename = args.graph_filename
        /\ \A i \in Idx("/send-media") : net[i].payload.media = media

C14_Witness ==
    /\ pc = "encoded"
    /\ Len(graph.data) = 2 /\ graph.data[1] = 255 /\ graph.data[2] = 77
    /\ media.data = <<63, 52, 52, B64Pad>>
    /\ media.filename = "cpu.jpg"

\* C15: every request answered with status >= 400 makes its call fail and
\* is the last request of a run of main; a login answered with status >= 400
\* is never followed directly by a chart GET or a POST /send-media.
C15_HttpErrorAborts ==
    \A i \in 1..Len(net) :
        net[i].status >= HTTP_ERROR =>
            /\ net[i].err # "ok"
            /\ InMain => i = Len(net)
            /\ (net[i].req = "login" /\ i < Len(net)) =>
                    net[i + 1].req \notin {"chart", "/send-media"}

\* C16: every run of main in which each HTTP call returns eventually exits,
\* with status 0, 2 or 3, after at most four HTTP requests and a single POST
\* /send; once the text send has succeeded, no later step re-sends it or
\* changes its record.
C16_MainTerminates ==
    /\ <>(pc = "exit")
    /\ [](/\ Len(net) <= 4
          /\ Cardinality(Idx("/send")) <= 1
          /\ pc = "exit" => exit_status \in {{0}, {2}, {3}}
          /\ pc # "exit" => exit_status = {})
    /\ [][TextOk => (TextOk' /\ Idx("/send")' = Idx("/send") /\ net'[1] = net[1])]_vars

C16_Witness ==
    /\ pc = "exit" /\ exit_status = {3}
    /\ Len(net) = 4
    /\ net[1].req = "/send" /\ net[1].err = "ok"
    /\ net[2].req = "login" /\ net[3].req = "chart"
    /\ net[4].req = "/send-media" /\ net[4].err = "transport"

====
